---- MODULE Spec2Model ----
(***************************************************************************)
(* Model of Dissent::Utils::StartStop (src/src/Utils/StartStop.cpp), the   *)
(* lifecycle guard holding the two flags _started and _stopped.            *)
(*                                                                         *)
(* Two specifications share the guard:                                     *)
(*   Spec      calls executed one at a time; every call is one action and  *)
(*             is appended to a log with the flags before and after it.    *)
(*   ConcSpec  two threads calling the guard without synchronisation; each *)
(*             read and each write of a flag is one step.                  *)
(***************************************************************************)
EXTENDS Integers, Sequences, FiniteSets, TLC

VARIABLES guard, log, pc, op, ret, nops, race

vars == <<guard, log, pc, op, ret, nops, race>>

concVars == <<pc, op, ret, nops, race>>

\* Longest sequence of calls explored by Spec.
MaxCalls == 5

\* Number of calls each thread makes in ConcSpec.
MaxOps == 2

Threads == {"t1", "t2"}

Ops == {"Start", "Stop", "DestructorCheck"}

\* The two flags of one guard.
Guard == [started : BOOLEAN, stopped : BOOLEAN]

-----------------------------------------------------------------------------
(* The guard's methods as functions of the flags.                          *)

\* Mutant of NewGuard: the constructor initialises _stopped to true.
NewGuard_StoppedSet == [started |-> FALSE, stopped |-> TRUE]

\* StartStop::StartStop(): both flags false.
NewGuard == [started |-> FALSE, stopped |-> FALSE]

\* Accessors used by DestructorCheck: plain reads of the stored flags.
Started(g) == g.started

Stopped(g) == g.stopped

\* The derived state of the guard, as the specification names it.
StateOf(g) ==
  IF g.stopped THEN "Stopped"
  ELSE IF g.started THEN "Started"
  ELSE "NotStarted"

\* Mutants of Start: the check of one flag is missing, or the wrong flag
\* is written.
Start_NoStartedCheck(g) ==
  IF g.stopped
  THEN [g |-> g, ret |-> <<FALSE>>, inner |-> <<>>]
  ELSE [g |-> [g EXCEPT !.started = TRUE], ret |-> <<TRUE>>, inner |-> <<>>]

Start_NoStoppedCheck(g) ==
  IF g.started
  THEN [g |-> g, ret |-> <<FALSE>>, inner |-> <<>>]
  ELSE [g |-> [g EXCEPT !.started = TRUE], ret |-> <<TRUE>>, inner |-> <<>>]

Start_SetsBeforeCheck(g) ==
  IF g.started \/ g.stopped
  THEN [g |-> [g EXCEPT !.started = TRUE], ret |-> <<FALSE>>, inner |-> <<>>]
  ELSE [g |-> [g EXCEPT !.started = TRUE], ret |-> <<TRUE>>, inner |-> <<>>]

\* bool StartStop::Start()
Start(g) ==
  IF g.started \/ g.stopped
  THEN [g |-> g, ret |-> <<FALSE>>, inner |-> <<>>]
  ELSE [g |-> [g EXCEPT !.started = TRUE], ret |-> <<TRUE>>, inner |-> <<>>]

\* Mutants of Stop.
Stop_NoCheck(g) ==
  [g |-> [g EXCEPT !.stopped = TRUE], ret |-> <<TRUE>>, inner |-> <<>>]

Stop_ResetsStarted(g) ==
  IF g.stopped
  THEN [g |-> g, ret |-> <<FALSE>>, inner |-> <<>>]
  ELSE [g |-> [g EXCEPT !.stopped = TRUE, !.started = FALSE],
        ret |-> <<TRUE>>, inner |-> <<>>]

Stop_RequiresStarted(g) ==
  IF g.stopped \/ ~g.started
  THEN [g |-> g, ret |-> <<FALSE>>, inner |-> <<>>]
  ELSE [g |-> [g EXCEPT !.stopped = TRUE], ret |-> <<TRUE>>, inner |-> <<>>]

Stop_Toggles(g) ==
  IF g.stopped
  THEN [g |-> [g EXCEPT !.stopped = FALSE], ret |-> <<FALSE>>, inner |-> <<>>]
  ELSE [g |-> [g EXCEPT !.stopped = TRUE], ret |-> <<TRUE>>, inner |-> <<>>]

\* bool StartStop::Stop()
Stop(g) ==
  IF g.stopped
  THEN [g |-> g, ret |-> <<FALSE>>, inner |-> <<>>]
  ELSE [g |-> [g EXCEPT !.stopped = TRUE], ret |-> <<TRUE>>, inner |-> <<>>]

\* Mutants of DestructorCheck.
DestructorCheck_NoStartedTest(g) ==
  IF ~Stopped(g)
  THEN [g |-> Stop(g).g, ret |-> <<>>, inner |-> Stop(g).ret]
  ELSE [g |-> g, ret |-> <<>>, inner |-> <<>>]

DestructorCheck_Never(g) ==
  [g |-> g, ret |-> <<>>, inner |-> <<>>]

DestructorCheck_ClearsStarted(g) ==
  IF ~Stopped(g) /\ Started(g)
  THEN [g |-> [Stop(g).g EXCEPT !.started = FALSE],
        ret |-> <<>>, inner |-> Stop(g).ret]
  ELSE [g |-> g, ret |-> <<>>, inner |-> <<>>]

\* void StartStop::DestructorCheck(): returns nothing; inner is the result
\* of the Stop() it made, if it made one.
DestructorCheck(g) ==
  IF ~Stopped(g) /\ Started(g)
  THEN [g |-> Stop(g).g, ret |-> <<>>, inner |-> Stop(g).ret]
  ELSE [g |-> g, ret |-> <<>>, inner |-> <<>>]

-----------------------------------------------------------------------------
(* Spec: calls executed one at a time.                                     *)

Entry(o, pre, r) ==
  [op |-> o, pre |-> pre, post |-> r.g, ret |-> r.ret, inner |-> r.inner]

Init ==
  /\ guard = NewGuard
  /\ log = <<>>
  /\ pc = [t \in Threads |-> "idle"]
  /\ op = [t \in Threads |-> "none"]
  /\ ret = [t \in Threads |-> <<>>]
  /\ nops = [t \in Threads |-> 0]
  /\ race = <<>>

CallStart ==
  /\ Len(log) < MaxCalls
  /\ guard' = Start(guard).g
  /\ log' = Append(log, Entry("Start", guard, Start(guard)))
  /\ UNCHANGED concVars

CallStop ==
  /\ Len(log) < MaxCalls
  /\ guard' = Stop(guard).g
  /\ log' = Append(log, Entry("Stop", guard, Stop(guard)))
  /\ UNCHANGED concVars

CallDestructorCheck ==
  /\ Len(log) < MaxCalls
  /\ guard' = DestructorCheck(guard).g
  /\ log' = Append(log, Entry("DestructorCheck", guard, DestructorCheck(guard)))
  /\ UNCHANGED concVars

Next == CallStart \/ CallStop \/ CallDestructorCheck

Spec == Init /\ [][Next]_vars

-----------------------------------------------------------------------------
(* Properties of Spec.                                                     *)

Calls(o) == {i \in DOMAIN log : log[i].op = o}

\* Calls of Start() that returned true.
StartSuccesses == {i \in Calls("Start") : log[i].ret = <<TRUE>>}

\* Calls of Stop() that returned true, the one made by DestructorCheck
\* included.
StopSuccesses ==
  {i \in DOMAIN log : \/ log[i].op = "Stop" /\ log[i].ret = <<TRUE>>
                      \/ log[i].op = "DestructorCheck" /\ log[i].inner = <<TRUE>>}

\* C1: over any sequence of Start, Stop and DestructorCheck calls, Start()
\* returns true at most once, and only when both flags were false at the
\* call.
C1_StartAtMostOnce ==
  /\ Cardinality(StartSuccesses) <= 1
  /\ \A i \in StartSuccesses : ~log[i].pre.started /\ ~log[i].pre.stopped

\* A Start() that returned true, then a Start() that returned false.
C1_Witness ==
  \E i, j \in Calls("Start") :
    i < j /\ log[i].ret = <<TRUE>> /\ log[j].ret = <<FALSE>>

\* C2: Stop() returns true at most once over the guard's lifetime; it
\* returns true whenever the guard is NotStarted or Started (stopped is
\* false) and false whenever the guard is Stopped (stopped is true).
C2_StopAtMostOnce ==
  /\ Cardinality(StopSuccesses) <= 1
  /\ \A i \in Calls("Stop") :
       /\ ~log[i].pre.stopped => log[i].ret = <<TRUE>>
       /\ log[i].pre.stopped => log[i].ret = <<FALSE>>

\* A Stop() that returned true from Started, then a Stop() that returned
\* false.
C2_Witness ==
  \E i, j \in Calls("Stop") :
    /\ i < j
    /\ log[i].pre.started /\ ~log[i].pre.stopped
    /\ log[i].ret = <<TRUE>>
    /\ log[j].ret = <<FALSE>>

\* C3: once a Stop() has returned true, every later Start() and Stop()
\* returns false and leaves both flags as they were, and no call leaves
\* Stopped.
C3_StoppedIsTerminal ==
  /\ \A i \in StopSuccesses : \A j \in Calls("Start") \cup Calls("Stop") :
       i < j => log[j].ret = <<FALSE>> /\ log[j].post = log[j].pre
  /\ \A j \in DOMAIN log : log[j].pre.stopped => log[j].post.stopped

\* Scenario E: Start(), Stop(), Start(), Stop().
C3_Witness ==
  /\ Len(log) >= 4
  /\ log[1].op = "Start" /\ log[1].ret = <<TRUE>>
  /\ log[2].op = "Stop" /\ log[2].ret = <<TRUE>>
  /\ log[3].op = "Start"
  /\ log[4].op = "Stop"

\* C4: DestructorCheck on a Started guard leaves it Stopped;
\* DestructorCheck on a NotStarted guard leaves it NotStarted.
C4_TeardownLaw ==
  \A i \in Calls("DestructorCheck") :
    /\ StateOf(log[i].pre) = "Started" => StateOf(log[i].post) = "Stopped"
    /\ StateOf(log[i].pre) = "NotStarted" => StateOf(log[i].post) = "NotStarted"

\* DestructorCheck has run on a NotStarted guard and on a Started guard.
C4_Witness ==
  \E i, j \in Calls("DestructorCheck") :
    /\ StateOf(log[i].pre) = "NotStarted"
    /\ StateOf(log[j].pre) = "Started"

\* C5 as stated: after DestructorCheck has run, the guard is stopped,
\* whatever state it ran in.
C5_AlwaysStoppedAfterTeardown ==
  \A i \in Calls("DestructorCheck") : log[i].post.stopped

\* C5 (amended): after DestructorCheck has run on a guard that is not
\* NotStarted, the guard is stopped, and a Started guard got its Stop();
\* on a NotStarted guard DestructorCheck calls no Stop() and the guard is
\* not stopped afterwards.
C5_StoppedAfterTeardownUnlessNotStarted ==
  \A i \in Calls("DestructorCheck") :
    /\ StateOf(log[i].pre) # "NotStarted" => log[i].post.stopped
    /\ StateOf(log[i].pre) = "Started" => log[i].inner = <<TRUE>>
    /\ StateOf(log[i].pre) = "NotStarted" =>
         ~log[i].post.stopped /\ log[i].inner = <<>>

\* DestructorCheck has run on a guard that was started and not stopped, and
\* the guard is stopped now.
C5_Witness ==
  /\ guard.stopped
  /\ \E i \in Calls("DestructorCheck") :
       log[i].pre.started /\ ~log[i].pre.stopped /\ log[i].inner = <<TRUE>>

\* Numbers of calls that changed a flag.
StartedChanges == {i \in DOMAIN log : log[i].pre.started # log[i].post.started}

StoppedChanges == {i \in DOMAIN log : log[i].pre.stopped # log[i].post.stopped}

\* C6: no step takes started or stopped from true back to false, and each
\* flag changes value at most once over the guard's lifetime.
C6_FlagsMonotonic ==
  /\ [][/\ guard.started => guard'.started
        /\ guard.stopped => guard'.stopped]_vars
  /\ [](Cardinality(StartedChanges) <= 1 /\ Cardinality(StoppedChanges) <= 1)

\* Both flags were set and two more calls were made after that.
C6_Witness ==
  \E i \in DOMAIN log :
    /\ log[i].post.started /\ log[i].post.stopped
    /\ i + 2 <= Len(log)
    /\ guard.started /\ guard.stopped

\* C7: a Start() on a started guard, a Start() on a stopped guard and a
\* Stop() on a stopped guard each return false and change no flag; every
\* call returns a boolean and leaves two boolean flags; Start() and Stop()
\* can be called in every reachable state.
C7_FailureIsPlainFalse ==
  /\ \A i \in Calls("Start") :
       log[i].pre.started \/ log[i].pre.stopped =>
         log[i].ret = <<FALSE>> /\ log[i].post = log[i].pre
  /\ \A i \in Calls("Stop") :
       log[i].pre.stopped =>
         log[i].ret = <<FALSE>> /\ log[i].post = log[i].pre
  /\ \A i \in Calls("Start") \cup Calls("Stop") :
       log[i].ret \in {<<TRUE>>, <<FALSE>>} /\ log[i].post \in Guard
  /\ guard \in Guard
  /\ Len(log) < MaxCalls => ENABLED CallStart /\ ENABLED CallStop

\* The three failures have happened: Start() on a started guard, Start() on
\* a stopped guard, Stop() on a stopped guard.
C7_Witness ==
  /\ \E i \in Calls("Start") :
       log[i].pre.started /\ ~log[i].pre.stopped /\ log[i].ret = <<FALSE>>
  /\ \E i \in Calls("Start") : log[i].pre.stopped /\ log[i].ret = <<FALSE>>
  /\ \E i \in Calls("Stop") : log[i].pre.stopped /\ log[i].ret = <<FALSE>>

\* C8: Stop() never modifies started and sets stopped whether or not
\* started was set; on a new guard it returns true and leaves
\* stopped = true, started = false; a Start() that returns true sets
\* started and leaves stopped as it was.
C8_StopStartFrame ==
  /\ \A i \in Calls("Stop") :
       /\ log[i].post.started = log[i].pre.started
       /\ log[i].post.stopped
       /\ log[i].pre = NewGuard =>
            /\ log[i].ret = <<TRUE>>
            /\ log[i].post = [started |-> FALSE, stopped |-> TRUE]
  /\ \A i \in StartSuccesses :
       log[i].post.started /\ log[i].post.stopped = log[i].pre.stopped

\* Scenario D: the first call on a new guard is a Stop().
C8_Witness ==
  /\ Len(log) >= 1
  /\ log[1].op = "Stop"
  /\ log[1].pre = NewGuard
  /\ ~guard.started /\ guard.stopped

\* C9: two consecutive Stop() calls on a guard that is not stopped return
\* (true, false), two consecutive Start() calls on a new guard return
\* (true, false), and in both cases the second call leaves the flags as
\* the first left them.
C9_Idempotence ==
  \A i \in DOMAIN log : i + 1 \in DOMAIN log =>
    /\ (/\ log[i].op = "Stop" /\ log[i + 1].op = "Stop"
        /\ ~log[i].pre.stopped) =>
          /\ log[i].ret = <<TRUE>> /\ log[i + 1].ret = <<FALSE>>
          /\ log[i + 1].post = log[i].post
    /\ (/\ log[i].op = "Start" /\ log[i + 1].op = "Start"
        /\ log[i].pre = NewGuard) =>
          /\ log[i].ret = <<TRUE>> /\ log[i + 1].ret = <<FALSE>>
          /\ log[i + 1].post = log[i].post

\* Start(), Start(), Stop(), Stop() on a new guard.
C9_Witness ==
  /\ Len(log) >= 4
  /\ log[1].op = "Start" /\ log[2].op = "Start"
  /\ log[3].op = "Stop" /\ log[4].op = "Stop"

\* C14: before any call both flags of a new guard are false, and a Start()
\* made as the first call returns true and sets started.
C14_NewGuardIsNotStarted ==
  /\ Len(log) = 0 => ~guard.started /\ ~guard.stopped
  /\ Len(log) >= 1 =>
       /\ ~log[1].pre.started /\ ~log[1].pre.stopped
       /\ log[1].op = "Start" =>
            log[1].ret = <<TRUE>> /\ log[1].post.started

\* Scenario B: the only call made so far is a Start().
C14_Witness ==
  /\ Len(log) = 1
  /\ log[1].op = "Start"
  /\ guard.started /\ ~guard.stopped

\* C15: DestructorCheck never modifies started; it changes stopped only on
\* a guard that is Started; after it no guard is Started; a second
\* DestructorCheck right after the first calls no Stop() and leaves both
\* flags as the first left them.
C15_TeardownFrameAndIdempotence ==
  /\ \A i \in Calls("DestructorCheck") :
       /\ log[i].post.started = log[i].pre.started
       /\ log[i].post.stopped # log[i].pre.stopped =>
            log[i].pre.started /\ ~log[i].pre.stopped
       /\ ~(log[i].post.started /\ ~log[i].post.stopped)
  /\ \A i \in Calls("DestructorCheck") :
       i + 1 \in Calls("DestructorCheck") =>
         log[i + 1].post = log[i].post /\ log[i + 1].inner = <<>>

\* Start(), DestructorCheck, DestructorCheck: the first one stopped the
\* guard, the second one ran on the result.
C15_Witness ==
  \E i \in Calls("DestructorCheck") :
    /\ i + 1 \in Calls("DestructorCheck")
    /\ log[i].pre.started /\ ~log[i].pre.stopped
    /\ log[i].inner = <<TRUE>>

-----------------------------------------------------------------------------
(* ConcSpec: two threads call the guard with no synchronisation.  The      *)
(* flags are plain bools, so a call is a sequence of separate reads and    *)
(* writes of them, taken in the order of the source, and the steps of the  *)
(* two threads interleave freely.                                          *)
(*   pc[t]    where thread t stands in its call ("idle" between calls)     *)
(*   op[t]    the method thread t called last                              *)
(*   ret[t]   <<b>> once the Start() or Stop() of that call returned b     *)
(*            (for DestructorCheck, the Stop() it made), <<>> before,      *)
(*            and when DestructorCheck returned without calling Stop()     *)
(*   nops[t]  number of calls thread t has made                            *)
(*   race     <<>>, or <<r>> when the call invoked last began while the    *)
(*            other thread was inside a call: r.ops[t] is the method of    *)
(*            thread t, r.g the flags when the second call began           *)

Other(t) == CHOOSE u \in Threads : u # t

FirstLabel(o) ==
  CASE o = "Start" -> "start_read_started"
    [] o = "Stop" -> "stop_check"
    [] o = "DestructorCheck" -> "dc_read_stopped"

\* Thread t calls method o.
Invoke(t, o) ==
  /\ pc[t] = "idle"
  /\ nops[t] < MaxOps
  /\ pc' = [pc EXCEPT ![t] = FirstLabel(o)]
  /\ op' = [op EXCEPT ![t] = o]
  /\ ret' = [ret EXCEPT ![t] = <<>>]
  /\ nops' = [nops EXCEPT ![t] = @ + 1]
  /\ race' = IF pc[Other(t)] # "idle"
             THEN <<[ops |-> [op EXCEPT ![t] = o], g |-> guard]>>
             ELSE <<>>
  /\ UNCHANGED <<guard, log>>

\* The call of thread t returns r (<<>>: nothing).
Return(t, r) ==
  /\ pc' = [pc EXCEPT ![t] = "idle"]
  /\ ret' = [ret EXCEPT ![t] = r]

Goto(t, label) ==
  /\ pc' = [pc EXCEPT ![t] = label]
  /\ UNCHANGED ret

\* Start(), line 13, left operand of ||: read _started.
StartReadStarted(t) ==
  /\ pc[t] = "start_read_started"
  /\ IF guard.started THEN Return(t, <<FALSE>>) ELSE Goto(t, "start_read_stopped")
  /\ UNCHANGED <<guard, log, op, nops, race>>

\* Start(), line 13, right operand of ||: read _stopped.
StartReadStopped(t) ==
  /\ pc[t] = "start_read_stopped"
  /\ IF guard.stopped THEN Return(t, <<FALSE>>) ELSE Goto(t, "start_set")
  /\ UNCHANGED <<guard, log, op, nops, race>>

\* Start(), lines 17-18: write _started, return true.
StartSet(t) ==
  /\ pc[t] = "start_set"
  /\ guard' = [guard EXCEPT !.started = TRUE]
  /\ Return(t, <<TRUE>>)
  /\ UNCHANGED <<log, op, nops, race>>

\* Mutant of StopCheck: the test of Start() (line 13) copied into Stop().
StopCheck_CopiedFromStart(t) ==
  /\ pc[t] = "stop_check"
  /\ IF guard.started \/ guard.stopped
     THEN Return(t, <<FALSE>>)
     ELSE Goto(t, "stop_set")
  /\ UNCHANGED <<guard, log, op, nops, race>>

\* Mutant of StopCheck: Stop() waits until the guard has been started.
StopCheck_WaitsForStarted(t) ==
  /\ pc[t] = "stop_check"
  /\ guard.started
  /\ IF guard.stopped THEN Return(t, <<FALSE>>) ELSE Goto(t, "stop_set")
  /\ UNCHANGED <<guard, log, op, nops, race>>

\* Stop(), lines 23-25: read _stopped.  Also the Stop() called by
\* DestructorCheck, whose result is dropped by the caller.
StopCheck(t) ==
  /\ pc[t] = "stop_check"
  /\ IF guard.stopped THEN Return(t, <<FALSE>>) ELSE Goto(t, "stop_set")
  /\ UNCHANGED <<guard, log, op, nops, race>>

\* Stop(), lines 27-28: write _stopped, return true.
StopSet(t) ==
  /\ pc[t] = "stop_set"
  /\ guard' = [guard EXCEPT !.stopped = TRUE]
  /\ Return(t, <<TRUE>>)
  /\ UNCHANGED <<log, op, nops, race>>

\* DestructorCheck(), line 33, left operand of &&: !Stopped().
DCReadStopped(t) ==
  /\ pc[t] = "dc_read_stopped"
  /\ IF ~Stopped(guard) THEN Goto(t, "dc_read_started") ELSE Return(t, <<>>)
  /\ UNCHANGED <<guard, log, op, nops, race>>

\* DestructorCheck(), line 33, right operand of &&: Started(); line 34:
\* call Stop().
DCReadStarted(t) ==
  /\ pc[t] = "dc_read_started"
  /\ IF Started(guard) THEN Goto(t, "stop_check") ELSE Return(t, <<>>)
  /\ UNCHANGED <<guard, log, op, nops, race>>

ConcNext ==
  \E t \in Threads :
    \/ \E o \in Ops : Invoke(t, o)
    \/ StartReadStarted(t)
    \/ StartReadStopped(t)
    \/ StartSet(t)
    \/ StopCheck(t)
    \/ StopSet(t)
    \/ DCReadStopped(t)
    \/ DCReadStarted(t)

ConcSpec == Init /\ [][ConcNext]_vars

\* The next statement of the call thread t is in.
Step(t) ==
  \/ StartReadStarted(t)
  \/ StartReadStopped(t)
  \/ StartSet(t)
  \/ StopCheck(t)
  \/ StopSet(t)
  \/ DCReadStopped(t)
  \/ DCReadStarted(t)

\* ConcSpec with threads that keep running: a thread that is inside a call
\* and can take its next statement eventually takes it.  Nothing obliges
\* a thread to make another call.
FairConcSpec == ConcSpec /\ \A t \in Threads : WF_vars(Step(t))

-----------------------------------------------------------------------------
(* Properties of ConcSpec.                                                 *)

\* The calls of the two threads overlapped, were o1 and o2 in some order,
\* and both have returned.
RaceDone(o1, o2) ==
  /\ race # <<>>
  /\ \E t \in Threads : race[1].ops[t] = o1 /\ race[1].ops[Other(t)] = o2
  /\ \A t \in Threads : pc[t] = "idle"

\* C10 as stated: when two Stop() calls overlap on a guard that is not
\* stopped, exactly one of them returns true and the other returns false.
C10_ExactlyOneStopSucceeds ==
  RaceDone("Stop", "Stop") /\ ~race[1].g.stopped =>
    \E t \in Threads : ret[t] = <<TRUE>> /\ ret[Other(t)] = <<FALSE>>

\* The thread whose call in the race is o.
Racer(o) == CHOOSE t \in Threads : race[1].ops[t] = o

\* C11 as stated: when a Start() and a Stop() overlap on a new guard,
\* exactly one of the two returns true and the other returns false.
C11_ExactlyOneOfStartStopSucceeds ==
  RaceDone("Start", "Stop") /\ race[1].g = NewGuard =>
    \E t \in Threads : ret[t] = <<TRUE>> /\ ret[Other(t)] = <<FALSE>>

\* C11 (amended): when a Start() and a Stop() overlap on a new guard, the
\* Stop() returns true under every interleaving and leaves stopped set;
\* the Start() returns true or false, and started is set exactly when it
\* returned true.
C11_StopSucceedsStartMaySucceed ==
  RaceDone("Start", "Stop") /\ race[1].g = NewGuard =>
    /\ ret[Racer("Stop")] = <<TRUE>>
    /\ ret[Racer("Start")] \in {<<TRUE>>, <<FALSE>>}
    /\ guard.stopped
    /\ guard.started <=> ret[Racer("Start")] = <<TRUE>>

\* A Start() and a Stop() overlapped on a new guard, and the Start() came
\* after the write of the Stop() and returned false.
C11_Witness ==
  /\ RaceDone("Start", "Stop")
  /\ race[1].g = NewGuard
  /\ ret[Racer("Start")] = <<FALSE>>
  /\ ret[Racer("Stop")] = <<TRUE>>

\* C12 as stated: when a Stop() and a DestructorCheck overlap on a Started
\* guard, at most one of the Stop() and the Stop() made by DestructorCheck
\* returns true.
C12_TeardownStopAppliedOnce ==
  /\ RaceDone("Stop", "DestructorCheck")
  /\ race[1].g = [started |-> TRUE, stopped |-> FALSE]
  => ~(\A t \in Threads : ret[t] = <<TRUE>>)

\* C13 as stated: when two Start() calls overlap on a new guard, at most
\* one of them returns true.
C13_AtMostOneStartSucceeds ==
  RaceDone("Start", "Start") /\ race[1].g = NewGuard =>
    ~(\A t \in Threads : ret[t] = <<TRUE>>)

\* The largest number of statements a call at this label still executes.
StepsLeft(label) ==
  CASE label = "idle" -> 0
    [] label = "start_read_started" -> 3
    [] label = "start_read_stopped" -> 2
    [] label = "start_set" -> 1
    [] label = "stop_check" -> 2
    [] label = "stop_set" -> 1
    [] label = "dc_read_stopped" -> 4
    [] label = "dc_read_started" -> 3

\* C16: no call blocks or waits: a thread inside a call can always take
\* its next statement, whatever the flags are and wherever the other
\* thread stands; every statement it takes brings the call closer to its
\* return, and no step of the other thread sets it back; so, with threads
\* that keep running, every call that was started returns.
C16_EveryCallReturns ==
  /\ [](\A t \in Threads : pc[t] # "idle" => ENABLED Step(t))
  /\ [][\A t \in Threads :
          pc'[t] # pc[t] /\ pc[t] # "idle" =>
            StepsLeft(pc'[t]) < StepsLeft(pc[t])]_vars
  /\ \A t \in Threads : (pc[t] # "idle") ~> (pc[t] = "idle")

\* Both threads have made all their calls, the last two of them
\* overlapping, and every call has returned.
C16_Witness ==
  /\ \A t \in Threads : nops[t] = MaxOps /\ pc[t] = "idle"
  /\ race # <<>>

====
